---- MODULE Spec2Model ----
(***************************************************************************)
(* A model of the deep-equality engine of src/src/isEqual.ts.              *)
(*                                                                         *)
(* The engine is a synchronous recursive function over JavaScript values   *)
(* that threads one mutable tracker (memo) through the recursion.  It is   *)
(* modelled as a stack machine: one frame per active invocation of         *)
(* isEqualWithMemo or of a category comparator, one step per stretch of    *)
(* code between two calls/returns of isEqualWithMemo.  The compared values *)
(* live in an immutable heap (the engine never mutates its inputs).        *)
(***************************************************************************)
EXTENDS Integers, Sequences, FiniteSets, TLC

VARIABLES heap, pc, call, opts, stack, memo, ret, result, nCalls

vars == <<heap, pc, call, opts, stack, memo, ret, result, nCalls>>

(***************************************************************************)
(* Bounds of the model.                                                    *)
(***************************************************************************)
\* calls that may share one caller-retained tracker
MaxCalls == 2
\* call-stack frames the machine may hold (never reached by the code as written)
MaxStack == 14
\* slots of a generated array, elements of a generated Set
MaxLen == 2
\* entries of a generated Map
MaxEntries == 2
\* slots, elements and entries of the generated containers whose comparisons
\* are followed to their end under fairness
MaxFairLen == 1

(***************************************************************************)
(* JavaScript values.  A value is a record [t, v, id]: t is the type tag,  *)
(* v the payload of a number/boolean/string (strings are numbered), id the *)
(* identity of an object or function.                                      *)
(***************************************************************************)
Val(t, v, id) == [t |-> t, v |-> v, id |-> id]
Undef     == Val("undef", 0, "")
Null      == Val("null", 0, "")
NaN       == Val("nan", 0, "")
Hole      == Val("hole", 0, "")
Num(n)    == Val("num", n, "")
Str(n)    == Val("str", n, "")
Bool(b)   == Val("bool", IF b THEN 1 ELSE 0, "")
Fn(id)    == Val("fn", 0, id)
Ref(id)   == Val("ref", 0, id)

(***************************************************************************)
(* Heap objects.  kind is the intrinsic category (what Array.isArray,      *)
(* instanceof and ArrayBuffer.isView answer), proto the prototype, items   *)
(* the array slots / Set elements in insertion order / typed-array bytes,  *)
(* entries the Map entries in insertion order, props the own properties in *)
(* creation order, prim the wrapped primitive / time value / source, tag   *)
(* the RegExp flags or the typed-array constructor.                        *)
(***************************************************************************)
Obj(kind, proto, items, entries, props, prim, tag) ==
    [kind |-> kind, proto |-> proto, items |-> items, entries |-> entries,
     props |-> props, prim |-> prim, tag |-> tag]
Plain(proto, props)   == Obj("object", proto, <<>>, <<>>, props, Undef, "")
Arr(items)            == Obj("array", "Array", items, <<>>, <<>>, Undef, "")
SetOf(items)          == Obj("set", "Set", items, <<>>, <<>>, Undef, "")
MapOf(entries)        == Obj("map", "Map", <<>>, entries, <<>>, Undef, "")
DateOf(time)          == Obj("date", "Date", <<>>, <<>>, <<>>, time, "")
RegExpOf(source, fl)  == Obj("regexp", "RegExp", <<>>, <<>>, <<>>, Str(source), fl)
Typed(ctor, bytes)    == Obj("typed", ctor, bytes, <<>>, <<>>, Undef, ctor)
Boxed(proto, p, props) == Obj("boxed", proto, <<>>, <<>>, props, p, "")

(***************************************************************************)
(* The values the callers of this model compare.  Property keys are        *)
(* strings; string values are numbered (1 is "a", 2 is "b").  The heap     *)
(* holds independent copies of equal structures (X1a/X1b, D0/D0b, ...),    *)
(* reorderings of the same collection, structures of different category    *)
(* with matching contents, and self- and mutually referential graphs       *)
(* nested through objects, arrays, Sets and Maps.                          *)
(***************************************************************************)
Catalog ==
    [ \* plain objects: {} {} {x:1} {x:1} {x:2} {x:undefined} {y:1} {x:1,y:undefined}
      E1   |-> Plain("Object", <<>>),
      E2   |-> Plain("Object", <<>>),
      X1a  |-> Plain("Object", << <<"x", Num(1)>> >>),
      X1b  |-> Plain("Object", << <<"x", Num(1)>> >>),
      X2   |-> Plain("Object", << <<"x", Num(2)>> >>),
      XU   |-> Plain("Object", << <<"x", Undef>> >>),
      Y1   |-> Plain("Object", << <<"y", Num(1)>> >>),
      XYU  |-> Plain("Object", << <<"x", Num(1)>>, <<"y", Undef>> >>),
      XY   |-> Plain("Object", << <<"x", Num(1)>>, <<"y", Num(2)>> >>),
      YX   |-> Plain("Object", << <<"y", Num(2)>>, <<"x", Num(1)>> >>),
      \* Object.create(null) with x = 1; instances of class A { x = 1 } and class B { x = 1 }
      NX1  |-> Plain("null", << <<"x", Num(1)>> >>),
      CA   |-> Plain("A", << <<"x", Num(1)>> >>),
      CA2  |-> Plain("A", << <<"x", Num(1)>> >>),
      CB   |-> Plain("B", << <<"x", Num(1)>> >>),
      \* { 0: 1, 1: 2 } and nested objects
      IDX  |-> Plain("Object", << <<"0", Num(1)>>, <<"1", Num(2)>> >>),
      NA   |-> Plain("Object", << <<"a", Ref("X1a")>> >>),
      NB   |-> Plain("Object", << <<"a", Ref("X1b")>> >>),
      NC   |-> Plain("Object", << <<"a", Ref("X2")>> >>),
      \* a.self = a
      SA   |-> Plain("Object", << <<"self", Ref("SA")>> >>),
      SB   |-> Plain("Object", << <<"self", Ref("SB")>> >>),
      \* a = { foo: {} }; a.foo.bar = a     and the mismatched  b.foo.bar = {}
      FA   |-> Plain("Object", << <<"foo", Ref("GA")>> >>),
      GA   |-> Plain("Object", << <<"bar", Ref("FA")>> >>),
      FB   |-> Plain("Object", << <<"foo", Ref("GB")>> >>),
      GB   |-> Plain("Object", << <<"bar", Ref("FB")>> >>),
      MB   |-> Plain("Object", << <<"foo", Ref("HB")>> >>),
      HB   |-> Plain("Object", << <<"bar", Ref("E1")>> >>),
      \* cycles through an array, a Set and a Map
      RA   |-> Arr(<< Ref("RA") >>),
      RB   |-> Arr(<< Ref("RB") >>),
      TA   |-> SetOf(<< Ref("TA"), Num(1) >>),
      TB   |-> SetOf(<< Num(1), Ref("TB") >>),
      UA   |-> MapOf(<< <<Ref("UA"), Ref("UA")>>, <<Str(1), Ref("UA")>> >>),
      UB   |-> MapOf(<< <<Str(1), Ref("UB")>>, <<Ref("UB"), Ref("UB")>> >>),
      \* a Set of two records, each with a child pointing back at its record
      PA   |-> SetOf(<< Ref("GX1"), Ref("GX2"), Ref("GC1"), Ref("GC2") >>),
      GX1  |-> Plain("Object", << <<"c", Ref("GC1")>>, <<"v", Num(1)>> >>),
      GC1  |-> Plain("Object", << <<"up", Ref("GX1")>> >>),
      GX2  |-> Plain("Object", << <<"c", Ref("GC2")>>, <<"v", Num(2)>> >>),
      GC2  |-> Plain("Object", << <<"up", Ref("GX2")>> >>),
      PB   |-> SetOf(<< Ref("GY2"), Ref("GY1"), Ref("GD2"), Ref("GD1") >>),
      PB2  |-> SetOf(<< Ref("GY1"), Ref("GY2"), Ref("GD1"), Ref("GD2") >>),
      QA   |-> SetOf(<< Ref("GX1"), Ref("GC1"), Ref("GX2") >>),
      QB   |-> SetOf(<< Ref("GY2"), Ref("GY1"), Ref("GD2") >>),
      GY1  |-> Plain("Object", << <<"c", Ref("GD1")>>, <<"v", Num(1)>> >>),
      GD1  |-> Plain("Object", << <<"up", Ref("GY1")>> >>),
      GY2  |-> Plain("Object", << <<"c", Ref("GD2")>>, <<"v", Num(2)>> >>),
      GD2  |-> Plain("Object", << <<"up", Ref("GY2")>> >>),
      \* arrays: [1,,3] [1,undefined,3] [1,,3] [1,2] [1,2] [2,1] [] [] [{x:1}] [{x:1}] [{x:2}]
      AH   |-> Arr(<< Num(1), Hole, Num(3) >>),
      AU   |-> Arr(<< Num(1), Undef, Num(3) >>),
      AH2  |-> Arr(<< Num(1), Hole, Num(3) >>),
      A12  |-> Arr(<< Num(1), Num(2) >>),
      A12b |-> Arr(<< Num(1), Num(2) >>),
      A21  |-> Arr(<< Num(2), Num(1) >>),
      AE   |-> Arr(<< >>),
      AE2  |-> Arr(<< >>),
      AO1  |-> Arr(<< Ref("X1a") >>),
      AO2  |-> Arr(<< Ref("X1b") >>),
      AO3  |-> Arr(<< Ref("X2") >>),
      AHO  |-> Arr(<< Hole, Ref("X1a") >>),
      AUO  |-> Arr(<< Undef, Ref("X1b") >>),
      \* Sets
      SE   |-> SetOf(<< >>),
      S12  |-> SetOf(<< Num(1), Num(2) >>),
      S21  |-> SetOf(<< Num(2), Num(1) >>),
      S23  |-> SetOf(<< Num(2), Num(3) >>),
      SN   |-> SetOf(<< NaN >>),
      SN2  |-> SetOf(<< NaN >>),
      SO1  |-> SetOf(<< Ref("X1a"), Ref("X2") >>),
      SO2  |-> SetOf(<< Ref("X2"), Ref("X1b") >>),
      SO3  |-> SetOf(<< Ref("X1b"), Ref("Y1") >>),
      SS1  |-> SetOf(<< Ref("S12") >>),
      SS2  |-> SetOf(<< Ref("S21") >>),
      SD1  |-> SetOf(<< Ref("D0"), Ref("D1") >>),
      SD2  |-> SetOf(<< Ref("E1"), Ref("D0b") >>),
      SD3  |-> SetOf(<< Ref("D0b"), Ref("E1") >>),
      SX1  |-> SetOf(<< Num(1), Ref("BN1") >>),
      SX2  |-> SetOf(<< Ref("BN1b"), Num(1) >>),
      \* Maps
      ME   |-> MapOf(<< >>),
      Mab  |-> MapOf(<< <<Str(1), Num(1)>>, <<Str(2), Num(2)>> >>),
      Mba  |-> MapOf(<< <<Str(2), Num(2)>>, <<Str(1), Num(1)>> >>),
      Ma1  |-> MapOf(<< <<Str(1), Num(1)>> >>),
      Ma2  |-> MapOf(<< <<Str(1), Num(2)>> >>),
      Mb1  |-> MapOf(<< <<Str(2), Num(1)>> >>),
      MaU  |-> MapOf(<< <<Str(1), Undef>> >>),
      MbU  |-> MapOf(<< <<Str(2), Undef>> >>),
      M1   |-> MapOf(<< <<Num(1), Num(0)>> >>),
      MN1  |-> MapOf(<< <<Ref("BN1"), Num(0)>> >>),
      MO1  |-> MapOf(<< <<Ref("X1a"), Ref("Y1")>>, <<Ref("X2"), Num(1)>> >>),
      MO2  |-> MapOf(<< <<Ref("X2"), Num(1)>>, <<Ref("X1b"), Ref("Y1")>> >>),
      MO3  |-> MapOf(<< <<Ref("X1b"), Num(1)>>, <<Ref("X2"), Ref("Y1")>> >>),
      MM1  |-> MapOf(<< <<Str(1), Ref("Ma1")>> >>),
      MM2  |-> MapOf(<< <<Str(1), Ref("Ma2")>> >>),
      MX1  |-> MapOf(<< <<Num(1), Num(0)>>, <<Ref("E1"), Num(0)>> >>),
      MX2  |-> MapOf(<< <<Ref("E2"), Num(0)>>, <<Num(1), Num(0)>> >>),
      MD1  |-> MapOf(<< <<Num(1), Num(0)>>, <<Ref("BN1"), Num(0)>> >>),
      MD2  |-> MapOf(<< <<Num(1), Num(0)>>, <<Num(2), Num(1)>> >>),
      \* Dates (DN is an invalid date), RegExps, typed arrays
      D0   |-> DateOf(Num(0)),
      D0b  |-> DateOf(Num(0)),
      D1   |-> DateOf(Num(1)),
      DN   |-> DateOf(NaN),
      Rag  |-> RegExpOf(1, "g"),
      Rag2 |-> RegExpOf(1, "g"),
      Rai  |-> RegExpOf(1, "i"),
      Rbg  |-> RegExpOf(2, "g"),
      U12  |-> Typed("Uint8Array", << Num(1), Num(2) >>),
      U12b |-> Typed("Uint8Array", << Num(1), Num(2) >>),
      I12  |-> Typed("Int8Array", << Num(1), Num(2) >>),
      U21  |-> Typed("Uint8Array", << Num(2), Num(1) >>),
      U1   |-> Typed("Uint8Array", << Num(1) >>),
      \* boxed primitives; BSx is Object.assign(new String("a"), { x: 1 })
      BSa  |-> Boxed("String", Str(1), <<>>),
      BSa2 |-> Boxed("String", Str(1), <<>>),
      BSb  |-> Boxed("String", Str(2), <<>>),
      BSx  |-> Boxed("String", Str(1), << <<"x", Num(1)>> >>),
      BSx2 |-> Boxed("String", Str(1), << <<"x", Num(1)>> >>),
      BN1  |-> Boxed("Number", Num(1), <<>>),
      BN1b |-> Boxed("Number", Num(1), <<>>),
      BN2  |-> Boxed("Number", Num(2), <<>>),
      BNaN |-> Boxed("Number", NaN, <<>>),
      BT   |-> Boxed("Boolean", Bool(TRUE), <<>>),
      BF   |-> Boxed("Boolean", Bool(FALSE), <<>>) ]

\* the heap holding the catalogued objects ids
World(ids) == [id \in ids |-> Catalog[id]]

\* the heaps a run starts from: each is closed under reference
Worlds ==
    { World({"E1", "E2", "X1a", "X1b", "X2", "XU", "Y1", "XYU", "XY", "YX", "NX1",
             "CA", "CA2", "CB", "NA", "NB", "NC"}),
      World({"SA", "SB", "FA", "GA", "FB", "GB", "MB", "HB", "E1", "RA", "RB",
             "TA", "TB", "UA", "UB"}),
      World({"PA", "GX1", "GC1", "GX2", "GC2", "PB", "PB2", "GY1", "GD1", "GY2",
             "GD2", "X1a", "X1b", "QA", "QB"}),
      World({"AH", "AU", "AH2", "A12", "A12b", "A21", "AE", "AE2", "AO1", "AO2",
             "AO3", "AHO", "AUO", "X1a", "X1b", "X2", "IDX"}),
      World({"SE", "S12", "S21", "S23", "SN", "SN2", "SO1", "SO2", "SO3", "SS1",
             "SS2", "X1a", "X1b", "X2", "Y1", "ME"}),
      World({"ME", "Mab", "Mba", "Ma1", "Ma2", "Mb1", "MaU", "MbU", "MO1", "MO2",
             "MO3", "MM1", "MM2", "X1a", "X1b", "X2", "Y1"}),
      World({"D0", "D0b", "D1", "DN", "Rag", "Rag2", "Rai", "Rbg", "U12", "U12b",
             "I12", "U21", "U1", "E1", "SE", "ME", "AE", "SD1", "SD2", "SD3",
             "IDX", "A12"}),
      World({"BSa", "BSa2", "BSb", "BSx", "BSx2", "BN1", "BN1b", "BN2", "BNaN",
             "BT", "BF", "M1", "MN1", "MX1", "MX2", "SX1", "SX2", "E1", "E2",
             "MD1", "MD2"}) }

(***************************************************************************)
(* Every heap of two objects P and Q of one category, built from short     *)
(* contents that may refer to P and to Q: all the small graphs, cyclic     *)
(* ones included, that two plain objects, two arrays, two Sets or two Maps *)
(* can form.                                                               *)
(***************************************************************************)
SeqsUpTo(S, n) == UNION {[1..k -> S] : k \in 0..n}
Distinct(s) == \A i, j \in 1..Len(s) : i # j => s[i] # s[j]

GenProps ==
    LET vs == {Undef, Num(1), Ref("P"), Ref("Q")}
        opt(k) == {<<>>} \cup { << <<k, v>> >> : v \in vs }
    IN  {px \o py : px \in opt("x"), py \in opt("y")}
GenPlain == {Plain("Object", ps) : ps \in GenProps}
GenArrays(n) ==
    {Arr(s) : s \in SeqsUpTo({Hole, Undef, Ref("P"), Ref("Q")}, n)}
GenSets(n) ==
    {SetOf(s) : s \in {t \in SeqsUpTo({Num(1), Ref("P"), Ref("Q")}, n) :
                          Distinct(t)}}
GenMaps(n) ==
    {MapOf(e) : e \in {t \in SeqsUpTo({Num(1), Ref("P"), Ref("Q")}
                                         \X {Num(1), Num(2)}, n) :
                          Distinct([i \in 1..Len(t) |-> t[i][1]])}}

\* len bounds the arrays and Sets, ent the Maps; the second plain object is
\* also taken with another prototype
GenWorlds(len, ent) ==
    UNION {{[P |-> p, Q |-> q] : p \in K, q \in K} :
              K \in {GenPlain, GenArrays(len), GenSets(len), GenMaps(ent)}}
      \cup {[P |-> p, Q |-> [q EXCEPT !.proto = "A"]] : p \in GenPlain, q \in GenPlain}

Primitives ==
    { Undef, Null, NaN, Num(0), Num(1), Num(2), Str(1), Str(2), Bool(TRUE), Bool(FALSE) }

Functions == { Fn("f1"), Fn("f2") }

\* the values a caller passes in heap h: any object of the heap and, in the
\* catalogued heaps, any primitive or function
Values(h) ==
    { Ref(id) : id \in DOMAIN h }
        \cup (IF h \in Worlds THEN Primitives \cup Functions ELSE {})

\* the values a batch of calls sharing one tracker is drawn from
BatchValues(h) ==
    { Ref(id) : id \in DOMAIN h \cap {"GX1", "GC1", "GY2", "GD2"} }

Options ==
    [strictSparseArrays : BOOLEAN, normalizeBoxedPrimitives : BOOLEAN,
     allowPrototypeMismatch : BOOLEAN]

DefaultOptions ==
    [strictSparseArrays |-> FALSE, normalizeBoxedPrimitives |-> FALSE,
     allowPrototypeMismatch |-> FALSE]


(***************************************************************************)
(* Utility functions (isEqual.ts, "Utility Functions").                    *)
(***************************************************************************)
isObject(v)    == v.t = "ref"
isFunction(v)  == v.t = "fn"
isPrimitive(v) == v.t \notin {"ref", "fn"}
KindOf(v)      == heap[v.id].kind
isArray(v)     == isObject(v) /\ KindOf(v) = "array"
isDate(v)      == isObject(v) /\ KindOf(v) = "date"
isRegExp(v)    == isObject(v) /\ KindOf(v) = "regexp"
isSet(v)       == isObject(v) /\ KindOf(v) = "set"
isMap(v)       == isObject(v) /\ KindOf(v) = "map"
isTypedArray(v) == isObject(v) /\ KindOf(v) = "typed"
isBoxedPrimitive(v) == isObject(v) /\ KindOf(v) = "boxed"
getPrototypeOf(v) == heap[v.id].proto
valueOf(v)     == heap[v.id].prim

\* a === b: numbers and strings by value (NaN equals nothing), objects and
\* functions by identity
StrictEq(a, b) == a = b /\ a.t # "nan"

BoolStr(x) == IF x THEN "true" ELSE "false"

\* the key of array index i (0-based)
IndexKey(i) == <<"0", "1", "2", "3">>[i + 1]

\* Reflect.ownKeys(o) with the values, in the order the runtime lists them:
\* the intrinsic own properties of the category, then the added ones
OwnProps(v) ==
    LET o == heap[v.id]
        indexed == [i \in 1..Len(o.items) |-> <<IndexKey(i - 1), o.items[i]>>]
        intrinsic ==
            CASE o.kind = "boxed" /\ o.proto = "String" ->
                    << <<"0", o.prim>>, <<"length", Num(1)>> >>
              [] o.kind = "regexp" -> << <<"lastIndex", Num(0)>> >>
              [] o.kind = "typed" -> indexed
              [] o.kind = "array" ->
                    SelectSeq(indexed, LAMBDA p : p[2] # Hole)
                        \o << <<"length", Num(Len(o.items))>> >>
              [] OTHER -> <<>>
    IN  intrinsic \o o.props

OwnKeys(v) == LET ps == OwnProps(v) IN [i \in 1..Len(ps) |-> ps[i][1]]

\* Object.prototype.hasOwnProperty.call(v, key)
HasOwn(v, key) == \E i \in 1..Len(OwnProps(v)) : OwnProps(v)[i][1] = key

\* v[key]
Get(v, key) ==
    LET ps == OwnProps(v) IN
    IF HasOwn(v, key)
    THEN ps[CHOOSE i \in 1..Len(ps) : ps[i][1] = key][2]
    ELSE Undef

\* a[i] of an array: a hole reads as undefined
Read(x) == IF x = Hole THEN Undef ELSE x

\* Map.prototype.has / get: keys match by SameValueZero (NaN matches NaN)
MapHas(m, k) == \E i \in 1..Len(heap[m.id].entries) : heap[m.id].entries[i][1] = k
MapGet(m, k) ==
    LET es == heap[m.id].entries IN
    IF MapHas(m, k) THEN es[CHOOSE i \in 1..Len(es) : es[i][1] = k][2] ELSE Undef

(***************************************************************************)
(* Leaf comparators.                                                       *)
(***************************************************************************)
compareDate(a, b) == StrictEq(valueOf(a), valueOf(b))

compareRegExp(a, b) ==
    valueOf(a) = valueOf(b) /\ heap[a.id].tag = heap[b.id].tag

compareTypedArray(a, b) ==
    LET A == heap[a.id]  B == heap[b.id] IN
    IF A.tag # B.tag \/ Len(A.items) # Len(B.items) THEN FALSE
    ELSE \A i \in 1..Len(A.items) : A.items[i] = B.items[i]

(***************************************************************************)
(* The machine.  A configuration is the call stack, the tracker and the    *)
(* value the last return left.  A frame is one active invocation: of       *)
(* isEqualWithMemo (ph "start" before lines 155-183, "store" while its     *)
(* comparator runs) or of a recursive comparator (i, j: loop indices;      *)
(* used: the consumed indices of b; ph: which call it is waiting for).     *)
(***************************************************************************)
Cfg(st, m, r) == [stack |-> st, memo |-> m, ret |-> r]
Frame(fn, a, b) ==
    [fn |-> fn, a |-> a, b |-> b, i |-> 0, j |-> 0, used |-> {}, ph |-> "start"]
Top(st) == st[Len(st)]
Pop(st) == SubSeq(st, 1, Len(st) - 1)

\* the top frame returns r to its caller
Return(c, r) == Cfg(Pop(c.stack), c.memo, r)
\* the top frame, updated to f, calls isEqualWithMemo(x, y, memo, opts)
Invoke(c, f, x, y) ==
    Cfg(Pop(c.stack) \o <<f, Frame("isEqualWithMemo", x, y)>>, c.memo, "none")

EmptyMemo == <<>>
Cached(m, a, b) == <<a.id, b.id>> \in DOMAIN m
MemoSet(m, a, b, r) == (<<a.id, b.id>> :> r) @@ m

(***************************************************************************)
(* isEqualWithMemo, lines 155-175: the verdicts reached before the tracker *)
(* is consulted ("true" or "false"), or "descend".                         *)
(***************************************************************************)
Unboxed(v, o) ==
    IF o.normalizeBoxedPrimitives /\ isBoxedPrimitive(v) THEN valueOf(v) ELSE v

\* Shortcut without the NaN case of line 158
ShortcutWithoutNaN(a0, b0, o) ==
    IF StrictEq(a0, b0) THEN "true"
    ELSE LET a == Unboxed(a0, o)
             b == Unboxed(b0, o)
         IN  IF o.normalizeBoxedPrimitives /\ isPrimitive(a) /\ isPrimitive(b)
                THEN BoolStr(StrictEq(a, b))
             ELSE IF isPrimitive(a) \/ isPrimitive(b) THEN "false"
             ELSE IF isFunction(a) \/ isFunction(b) THEN BoolStr(StrictEq(a, b))
             ELSE "descend"

Shortcut(a0, b0, o) ==
    IF StrictEq(a0, b0) THEN "true"
    ELSE IF a0.t = "nan" /\ b0.t = "nan" THEN "true"
    ELSE LET a == Unboxed(a0, o)
             b == Unboxed(b0, o)
         IN  IF o.normalizeBoxedPrimitives /\ isPrimitive(a) /\ isPrimitive(b)
                THEN BoolStr(StrictEq(a, b))
             ELSE IF isPrimitive(a) \/ isPrimitive(b) THEN "false"
             ELSE IF isFunction(a) \/ isFunction(b) THEN BoolStr(StrictEq(a, b))
             ELSE IF ~isObject(a) \/ ~isObject(b) THEN "false"
             ELSE "descend"

\* lines 190-198: the comparator the pair is dispatched to
Dispatch(a, b, o) ==
    IF isArray(a) /\ isArray(b) THEN "compareArray"
    ELSE IF isArray(a) \/ isArray(b) THEN "mismatch"
    ELSE IF isDate(a) /\ isDate(b) THEN "compareDate"
    ELSE IF isRegExp(a) /\ isRegExp(b) THEN "compareRegExp"
    ELSE IF isTypedArray(a) /\ isTypedArray(b) THEN "compareTypedArray"
    ELSE IF isSet(a) /\ isSet(b) THEN "compareSet"
    ELSE IF isMap(a) /\ isMap(b) THEN "compareMap"
    ELSE IF ~o.allowPrototypeMismatch /\ getPrototypeOf(a) # getPrototypeOf(b)
         THEN "mismatch"
    ELSE "compareObject"

Recursive == {"compareArray", "compareSet", "compareMap", "compareObject"}

LeafResult(d, a, b) ==
    CASE d = "compareDate" -> BoolStr(compareDate(a, b))
      [] d = "compareRegExp" -> BoolStr(compareRegExp(a, b))
      [] d = "compareTypedArray" -> BoolStr(compareTypedArray(a, b))
      [] OTHER -> "false"

\* EnterEqual without the cache lookup of lines 179-180
EnterEqualWithoutCache(c, o) ==
    LET f == Top(c.stack)
        s == Shortcut(f.a, f.b, o)
    IN  IF s # "descend" THEN Return(c, s)
        ELSE LET m == MemoSet(c.memo, f.a, f.b, TRUE)
                 d == Dispatch(f.a, f.b, o)
                 st == Pop(c.stack) \o <<[f EXCEPT !.ph = "store"]>>
             IN  IF d \in Recursive
                 THEN Cfg(st \o <<Frame(d, f.a, f.b)>>, m, "none")
                 ELSE Cfg(st, m, LeafResult(d, f.a, f.b))

\* lines 155-198, up to the call of the comparator: a verdict without
\* descent, the cached verdict, or the optimistic entry and the dispatch
EnterEqual(c, o) ==
    LET f == Top(c.stack)
        s == Shortcut(f.a, f.b, o)
    IN  IF s # "descend" THEN Return(c, s)
        ELSE IF Cached(c.memo, f.a, f.b)
             THEN Return(c, BoolStr(c.memo[<<f.a.id, f.b.id>>]))
        ELSE LET m == MemoSet(c.memo, f.a, f.b, TRUE)
                 d == Dispatch(f.a, f.b, o)
                 st == Pop(c.stack) \o <<[f EXCEPT !.ph = "store"]>>
             IN  IF d \in Recursive
                 THEN Cfg(st \o <<Frame(d, f.a, f.b)>>, m, "none")
                 ELSE Cfg(st, m, LeafResult(d, f.a, f.b))

\* StoreEqual without the write of line 200: the optimistic entry is left as it is
StoreEqualWithoutWrite(c) == Return(c, c.ret)

\* lines 200-201: memoA.set(b, result); return result
StoreEqual(c) ==
    LET f == Top(c.stack) IN
    Cfg(Pop(c.stack), MemoSet(c.memo, f.a, f.b, c.ret = "true"), c.ret)

(***************************************************************************)
(* compareArray, lines 109-128.                                            *)
(***************************************************************************)
\* ArrayLoop that reads every hole as undefined, whatever strictSparseArrays is
ArrayLoopIgnoringHoles(c, i, o) ==
    LET f == Top(c.stack)
        A == heap[f.a.id].items
        B == heap[f.b.id].items
    IN  IF i > Len(A) THEN Return(c, "true")
        ELSE Invoke(c, [f EXCEPT !.i = i, !.ph = "elem"], Read(A[i]), Read(B[i]))

RECURSIVE ArrayLoop(_, _, _)
ArrayLoop(c, i, o) ==
    LET f == Top(c.stack)
        A == heap[f.a.id].items
        B == heap[f.b.id].items
    IN  IF i > Len(A) THEN Return(c, "true")
        ELSE IF o.strictSparseArrays /\ (A[i] # Hole) # (B[i] # Hole)
             THEN Return(c, "false")
        ELSE IF o.strictSparseArrays /\ A[i] = Hole /\ B[i] = Hole
             THEN ArrayLoop(c, i + 1, o)
        ELSE Invoke(c, [f EXCEPT !.i = i, !.ph = "elem"], Read(A[i]), Read(B[i]))

compareArray(c, o) ==
    LET f == Top(c.stack) IN
    IF f.ph = "start"
    THEN IF Len(heap[f.a.id].items) # Len(heap[f.b.id].items)
         THEN Return(c, "false")
         ELSE ArrayLoop(c, 1, o)
    ELSE IF c.ret = "false" THEN Return(c, "false")
    ELSE ArrayLoop(c, f.i + 1, o)

(***************************************************************************)
(* compareObject, lines 131-145.  count equals the number of keys of a     *)
(* when the loop ends.                                                     *)
(***************************************************************************)
\* ObjectLoop without the hasOwnProperty test of line 139
ObjectLoopWithoutHasOwn(c, i) ==
    LET f == Top(c.stack)
        keys == OwnKeys(f.a)
    IN  IF i > Len(keys)
        THEN Return(c, BoolStr(Len(OwnKeys(f.b)) = Len(keys)))
        ELSE Invoke(c, [f EXCEPT !.i = i, !.ph = "value"],
                    Get(f.a, keys[i]), Get(f.b, keys[i]))

ObjectLoop(c, i) ==
    LET f == Top(c.stack)
        keys == OwnKeys(f.a)
    IN  IF i > Len(keys)
        THEN Return(c, BoolStr(Len(OwnKeys(f.b)) = Len(keys)))
        ELSE IF ~HasOwn(f.b, keys[i]) THEN Return(c, "false")
        ELSE Invoke(c, [f EXCEPT !.i = i, !.ph = "value"],
                    Get(f.a, keys[i]), Get(f.b, keys[i]))

compareObject(c, o) ==
    LET f == Top(c.stack) IN
    IF f.ph = "start" THEN ObjectLoop(c, 1)
    ELSE IF c.ret = "false" THEN Return(c, "false")
    ELSE ObjectLoop(c, f.i + 1)

(***************************************************************************)
(* compareSet, lines 42-69.  i walks the elements of a, j the elements of  *)
(* b (bArray), used holds the indices of b already matched.                *)
(***************************************************************************)
RECURSIVE SetInner(_, _, _, _)
SetInner(c, i, j, used) ==
    LET f == Top(c.stack)
        A == heap[f.a.id].items
        B == heap[f.b.id].items
    IN  IF j > Len(B) THEN Return(c, "false")
        ELSE IF j \in used THEN SetInner(c, i, j + 1, used)
        ELSE Invoke(c, [f EXCEPT !.i = i, !.j = j, !.used = used, !.ph = "elem"],
                    A[i], B[j])

RECURSIVE SetOuter(_, _, _)
SetOuter(c, i, used) ==
    LET f == Top(c.stack)
        A == heap[f.a.id].items
        B == heap[f.b.id].items
        exact == {k \in 1..Len(B) : k \notin used /\ StrictEq(A[i], B[k])}
        exactIdx == CHOOSE k \in exact : \A l \in exact : k <= l
    IN  IF i > Len(A) THEN Return(c, "true")
        ELSE IF exact # {} THEN SetOuter(c, i + 1, used \cup {exactIdx})
        ELSE SetInner(c, i, 1, used)

compareSet(c, o) ==
    LET f == Top(c.stack) IN
    IF f.ph = "start"
    THEN IF Len(heap[f.a.id].items) # Len(heap[f.b.id].items)
         THEN Return(c, "false")
         ELSE SetOuter(c, 1, {})
    ELSE IF c.ret = "true" THEN SetOuter(c, f.i + 1, f.used \cup {f.j})
    ELSE SetInner(c, f.i, f.j + 1, f.used)

(***************************************************************************)
(* compareMap, lines 72-106.  i walks the entries of a, j the entries of b *)
(* (bEntries); ph tells which call the frame waits for: the value under a  *)
(* primitive key ("pvalue"), the key of candidate j ("key") or its value   *)
(* ("value").                                                              *)
(***************************************************************************)
RECURSIVE MapInner(_, _, _, _)
MapInner(c, i, j, used) ==
    LET f == Top(c.stack)
        A == heap[f.a.id].entries
        B == heap[f.b.id].entries
    IN  IF j > Len(B) THEN Return(c, "false")
        ELSE IF j \in used THEN MapInner(c, i, j + 1, used)
        ELSE Invoke(c, [f EXCEPT !.i = i, !.j = j, !.used = used, !.ph = "key"],
                    A[i][1], B[j][1])

MapOuter(c, i, used) ==
    LET f == Top(c.stack)
        A == heap[f.a.id].entries
    IN  IF i > Len(A) THEN Return(c, "true")
        ELSE IF isPrimitive(A[i][1])
             THEN IF MapGet(f.b, A[i][1]) = Undef /\ ~MapHas(f.b, A[i][1])
                  THEN Return(c, "false")
                  ELSE Invoke(c, [f EXCEPT !.i = i, !.used = used, !.ph = "pvalue"],
                              A[i][2], MapGet(f.b, A[i][1]))
        ELSE MapInner(c, i, 1, used)

compareMap(c, o) ==
    LET f == Top(c.stack)
        A == heap[f.a.id].entries
        B == heap[f.b.id].entries
    IN  CASE f.ph = "start" ->
                IF Len(A) # Len(B) THEN Return(c, "false") ELSE MapOuter(c, 1, {})
          [] f.ph = "pvalue" ->
                IF c.ret = "false" THEN Return(c, "false")
                ELSE MapOuter(c, f.i + 1, f.used)
          [] f.ph = "key" ->
                IF c.ret = "true"
                THEN Invoke(c, [f EXCEPT !.ph = "value"], A[f.i][2], B[f.j][2])
                ELSE MapInner(c, f.i, f.j + 1, f.used)
          [] OTHER ->
                IF c.ret = "true" THEN MapOuter(c, f.i + 1, f.used \cup {f.j})
                ELSE MapInner(c, f.i, f.j + 1, f.used)

(***************************************************************************)
(* One step of the machine, and a whole call run to its return.            *)
(***************************************************************************)
Step(c, o) ==
    LET f == Top(c.stack) IN
    CASE f.fn = "isEqualWithMemo" /\ f.ph = "start" -> EnterEqual(c, o)
      [] f.fn = "isEqualWithMemo" /\ f.ph = "store" -> StoreEqual(c)
      [] f.fn = "compareArray" -> compareArray(c, o)
      [] f.fn = "compareObject" -> compareObject(c, o)
      [] f.fn = "compareSet" -> compareSet(c, o)
      [] f.fn = "compareMap" -> compareMap(c, o)

RECURSIVE Run(_, _)
Run(c, o) == IF c.stack = <<>> THEN c ELSE Run(Step(c, o), o)

\* isEqualWithMemo(a, b, memo, opts) as a function: the verdict and the
\* tracker it leaves
isEqualWithMemo(a, b, m, o) ==
    Run(Cfg(<<Frame("isEqualWithMemo", a, b)>>, m, "none"), o)

\* the public isEqual(a, b, opts): a fresh tracker
isEqual(a, b, o) == isEqualWithMemo(a, b, EmptyMemo, o).ret

(***************************************************************************)
(* The state machine.                                                      *)
(***************************************************************************)
NoCall == [a |-> Undef, b |-> Undef, shared |-> FALSE]

InitIn(worlds) ==
    /\ heap \in worlds
    /\ pc = "idle"
    /\ call = NoCall
    /\ opts = DefaultOptions
    /\ stack = <<>>
    /\ memo = EmptyMemo
    /\ ret = "none"
    /\ result = "none"
    /\ nCalls = 0

Init == InitIn(Worlds \cup GenWorlds(MaxLen, MaxEntries))

Current == Cfg(stack, memo, ret)

Becomes(c) ==
    /\ Len(c.stack) <= MaxStack
    /\ stack' = c.stack
    /\ memo' = c.memo
    /\ ret' = c.ret

\* export const isEqual = (a, b, opts) => isEqualWithMemo(a, b, new WeakMap(), opts)
CallIsEqual(a, b, o) ==
    /\ pc = "idle"
    /\ pc' = "running"
    /\ call' = [a |-> a, b |-> b, shared |-> FALSE]
    /\ opts' = o
    /\ stack' = <<Frame("isEqualWithMemo", a, b)>>
    /\ memo' = EmptyMemo
    /\ ret' = "none"
    /\ result' = "none"
    /\ nCalls' = 1
    /\ UNCHANGED heap

\* export const isEqualWithSharedMemo = (a, b, memo, opts) => ...: the caller
\* passes the tracker it kept from its earlier calls, and the same options
CallIsEqualWithSharedMemo(a, b, o) ==
    /\ \/ pc = "idle"
       \/ pc = "done" /\ call.shared /\ o = opts
    /\ nCalls < MaxCalls
    /\ pc' = "running"
    /\ call' = [a |-> a, b |-> b, shared |-> TRUE]
    /\ opts' = o
    /\ stack' = <<Frame("isEqualWithMemo", a, b)>>
    /\ ret' = "none"
    /\ result' = "none"
    /\ nCalls' = nCalls + 1
    /\ UNCHANGED <<heap, memo>>

Running(fn) == pc = "running" /\ stack # <<>> /\ Top(stack).fn = fn

EnterEqualStep ==
    /\ Running("isEqualWithMemo") /\ Top(stack).ph = "start"
    /\ Becomes(EnterEqual(Current, opts))
    /\ UNCHANGED <<heap, pc, call, opts, result, nCalls>>

StoreEqualStep ==
    /\ Running("isEqualWithMemo") /\ Top(stack).ph = "store" /\ ret # "none"
    /\ Becomes(StoreEqual(Current))
    /\ UNCHANGED <<heap, pc, call, opts, result, nCalls>>

CompareArrayStep ==
    /\ Running("compareArray")
    /\ Becomes(compareArray(Current, opts))
    /\ UNCHANGED <<heap, pc, call, opts, result, nCalls>>

CompareObjectStep ==
    /\ Running("compareObject")
    /\ Becomes(compareObject(Current, opts))
    /\ UNCHANGED <<heap, pc, call, opts, result, nCalls>>

CompareSetStep ==
    /\ Running("compareSet")
    /\ Becomes(compareSet(Current, opts))
    /\ UNCHANGED <<heap, pc, call, opts, result, nCalls>>

CompareMapStep ==
    /\ Running("compareMap")
    /\ Becomes(compareMap(Current, opts))
    /\ UNCHANGED <<heap, pc, call, opts, result, nCalls>>

\* the top-level call returns its verdict to the caller
ReturnToCaller ==
    /\ pc = "running" /\ stack = <<>>
    /\ pc' = "done"
    /\ result' = ret
    /\ UNCHANGED <<heap, call, opts, stack, memo, ret, nCalls>>

EngineStep ==
    \/ EnterEqualStep
    \/ StoreEqualStep
    \/ CompareArrayStep
    \/ CompareObjectStep
    \/ CompareSetStep
    \/ CompareMapStep
    \/ ReturnToCaller

Next ==
    \/ /\ pc = "idle"
       /\ \E a \in Values(heap), b \in Values(heap), o \in Options : CallIsEqual(a, b, o)
    \/ /\ pc \in {"idle", "done"}
       /\ \E a \in BatchValues(heap), b \in BatchValues(heap), o \in Options :
            CallIsEqualWithSharedMemo(a, b, o)
    \/ EngineStep

Spec == Init /\ [][Next]_vars

\* the engine is synchronous: a call that has started runs on until it returns
FairInit == InitIn(Worlds \cup GenWorlds(MaxFairLen, MaxFairLen))

FairSpec == FairInit /\ [][Next]_vars /\ WF_vars(EngineStep)

(***************************************************************************)
(* Vocabulary of the properties.                                           *)
(***************************************************************************)
Done     == pc = "done"
Fresh    == ~call.shared
BothObjects == isObject(call.a) /\ isObject(call.b)

\* the object ids a heap object refers to
RefsOf(id) ==
    LET o == heap[id]
        vs == {o.items[i] : i \in 1..Len(o.items)}
                \cup {o.entries[i][1] : i \in 1..Len(o.entries)}
                \cup {o.entries[i][2] : i \in 1..Len(o.entries)}
                \cup {o.props[i][2] : i \in 1..Len(o.props)}
    IN  {v.id : v \in {w \in vs : w.t = "ref"}}

RECURSIVE ReachFrom(_)
ReachFrom(S) ==
    LET N == S \cup UNION {RefsOf(id) : id \in S} IN
    IF N = S THEN S ELSE ReachFrom(N)

\* the objects of the graph rooted at v, and whether that graph has a cycle
Reach(v)  == ReachFrom({v.id})
Cyclic(v) == \E id \in Reach(v) : RefsOf(id) # {} /\ id \in ReachFrom(RefsOf(id))

\* f maps the graph of a onto the graph of b, keeping categories, prototypes,
\* own keys, primitive leaves, and sending every reference to its image
Image(v, f) == IF v.t = "ref" THEN Ref(f[v.id]) ELSE v
SameShape(x, y, f) ==
    LET o == heap[x]
        q == heap[y]
    IN  /\ o.kind = q.kind /\ o.proto = q.proto /\ o.prim = q.prim /\ o.tag = q.tag
        /\ Len(o.props) = Len(q.props)
        /\ {<<o.props[i][1], Image(o.props[i][2], f)>> : i \in 1..Len(o.props)}
             = {q.props[i] : i \in 1..Len(q.props)}
        /\ Len(o.items) = Len(q.items)
        /\ IF o.kind = "set"
           THEN {Image(o.items[i], f) : i \in 1..Len(o.items)}
                    = {q.items[i] : i \in 1..Len(q.items)}
           ELSE \A i \in 1..Len(o.items) : Image(o.items[i], f) = q.items[i]
        /\ Len(o.entries) = Len(q.entries)
        /\ {<<Image(o.entries[i][1], f), Image(o.entries[i][2], f)>> :
                i \in 1..Len(o.entries)}
             = {q.entries[i] : i \in 1..Len(q.entries)}

Isomorphic(a, b) ==
    /\ Cardinality(Reach(a)) = Cardinality(Reach(b))
    /\ \E f \in [Reach(a) -> Reach(b)] :
          /\ f[a.id] = b.id
          /\ \A x, y \in Reach(a) : x # y => f[x] # f[y]
          /\ \A x \in Reach(a) : SameShape(x, f[x], f)

\* the verdict the engine gave the pair (x, y) during the finished call: the
\* one reached before the tracker is consulted, else the one the tracker holds
Verdict(x, y) ==
    LET s == Shortcut(x, y, opts) IN
    IF s # "descend" THEN s = "true"
    ELSE Cached(memo, x, y) /\ memo[<<x.id, y.id>>]

\* C1: with default options, two independently constructed object graphs
\* that contain cycles and are isomorphic compare true.
C1_IsomorphicCyclesEqual ==
    (/\ Done /\ Fresh /\ opts = DefaultOptions /\ BothObjects
     /\ Reach(call.a) \cap Reach(call.b) = {}
     /\ Cyclic(call.a)
     /\ Isomorphic(call.a, call.b))
        => result = "true"

\* C3: symmetry: isEqual(a, b) and isEqual(b, a) return the same boolean,
\* for all values and every options setting, each call on a fresh tracker.
C3_Symmetric ==
    (Done /\ Fresh) => result = isEqual(call.b, call.a, opts)

\* C4: a call of isEqualWithSharedMemo on a tracker kept from earlier calls
\* with the same options returns what isEqual returns for the same arguments.
C4_SharedTrackerSameVerdict ==
    (Done /\ call.shared) => result = isEqual(call.a, call.b, opts)

\* y holds the elements/entries of x in another insertion order
Reordered(x, y) ==
    /\ heap[x].kind = heap[y].kind /\ heap[x].kind \in {"set", "map"}
    /\ Len(heap[x].items) = Len(heap[y].items)
    /\ {heap[x].items[i] : i \in 1..Len(heap[x].items)}
         = {heap[y].items[i] : i \in 1..Len(heap[y].items)}
    /\ Len(heap[x].entries) = Len(heap[y].entries)
    /\ {heap[x].entries[i] : i \in 1..Len(heap[x].entries)}
         = {heap[y].entries[i] : i \in 1..Len(heap[y].entries)}

\* C5: the verdict on two Sets (two Maps) does not depend on insertion
\* order: replacing a or b by a reordering of it leaves the result unchanged.
C5_InsertionOrderIndependent ==
    (/\ Done /\ Fresh /\ BothObjects
     /\ \/ isSet(call.a) /\ isSet(call.b)
        \/ isMap(call.a) /\ isMap(call.b))
        => \A x \in DOMAIN heap :
              /\ Reordered(call.a.id, x) => isEqual(Ref(x), call.b, opts) = result
              /\ Reordered(call.b.id, x) => isEqual(call.a, Ref(x), opts) = result

Categories == {"array", "date", "regexp", "typed", "set", "map", "object"}

\* C6: two non-primitive values of different categories compare false,
\* whatever the options.
C6_CategoryMismatchFails ==
    (/\ Done /\ Fresh /\ BothObjects
     /\ KindOf(call.a) \in Categories /\ KindOf(call.b) \in Categories
     /\ KindOf(call.a) # KindOf(call.b))
        => result = "false"

\* C7: reflexivity: isEqual(v, v) is true for every value v (NaN, functions
\* and self-referential objects included) and every options setting.
C7_Reflexive ==
    (Done /\ call.a = call.b) => result = "true"

C7_Witness ==
    /\ Done /\ call.a = call.b /\ result = "true"
    /\ isObject(call.a) /\ Cyclic(call.a) /\ isSet(call.a)

\* the primitive under a boxed primitive, a primitive itself
Underlying(v) == IF isBoxedPrimitive(v) THEN valueOf(v) ELSE v
Boxable(v) == v.t \in {"str", "num", "nan", "bool"}

\* C8: with normalizeBoxedPrimitives, comparing boxed(p) with q, p with
\* boxed(q) or boxed(p) with boxed(q) gives what comparing p with q gives.
C8_BoxedComparesAsPrimitive ==
    (/\ Done /\ Fresh /\ opts.normalizeBoxedPrimitives
     /\ isBoxedPrimitive(call.a) \/ isBoxedPrimitive(call.b)
     /\ Boxable(Underlying(call.a)) /\ Boxable(Underlying(call.b)))
        => result = isEqual(Underlying(call.a), Underlying(call.b), opts)

\* C2: every call returns a boolean: a running call always reaches its
\* return, and a pair the tracker already holds is never expanded again.
C2_Terminates ==
    /\ (pc = "running") ~> (pc = "done" /\ result \in {"true", "false"})
    /\ [][(/\ pc = "running" /\ stack # <<>>
           /\ Top(stack).fn = "isEqualWithMemo" /\ Top(stack).ph = "start"
           /\ Cached(memo, Top(stack).a, Top(stack).b))
              => Len(stack') < Len(stack)]_vars

C2_Witness ==
    /\ Done /\ result \in {"true", "false"}
    /\ BothObjects /\ call.a # call.b
    /\ isMap(call.a) /\ Cyclic(call.a) /\ isMap(call.b) /\ Cyclic(call.b)

\* what the claim C9 asks of index i of the two compared arrays
ArrayIndexAgrees(i) ==
    LET A == heap[call.a.id].items
        B == heap[call.b.id].items
    IN  IF opts.strictSparseArrays
        THEN \/ A[i] = Hole /\ B[i] = Hole
             \/ A[i] # Hole /\ B[i] # Hole /\ Verdict(A[i], B[i])
        ELSE Verdict(Read(A[i]), Read(B[i]))

BothArraysOfEqualLength ==
    /\ isArray(call.a) /\ isArray(call.b)
    /\ Len(heap[call.a.id].items) = Len(heap[call.b.id].items)

\* C9: two arrays of equal length compare true exactly when every index
\* agrees: under strictSparseArrays both slots are holes or both are stored
\* and engine-equal; otherwise a hole reads as undefined and the two reads
\* are engine-equal.
C9_SparseArrays ==
    (Done /\ Fresh /\ BothArraysOfEqualLength)
        => (result = "true"
              <=> \A i \in 1..Len(heap[call.a.id].items) : ArrayIndexAgrees(i))

C9_Witness ==
    /\ Done /\ Fresh /\ BothArraysOfEqualLength /\ opts.strictSparseArrays
    /\ result = "false"
    /\ \E i \in 1..Len(heap[call.a.id].items) :
          heap[call.a.id].items[i] = Hole /\ heap[call.b.id].items[i] = Undef

KeySet(v) == {OwnKeys(v)[i] : i \in 1..Len(OwnKeys(v))}

\* the pair of the finished call went to the fallback comparator's branch
ReachesFallback ==
    /\ BothObjects
    /\ Shortcut(call.a, call.b, opts) = "descend"
    /\ ~isArray(call.a) /\ ~isArray(call.b)
    /\ ~(isDate(call.a) /\ isDate(call.b))
    /\ ~(isRegExp(call.a) /\ isRegExp(call.b))
    /\ ~(isTypedArray(call.a) /\ isTypedArray(call.b))
    /\ ~(isSet(call.a) /\ isSet(call.b))
    /\ ~(isMap(call.a) /\ isMap(call.b))

\* C10: two objects that reach the fallback comparator compare true exactly
\* when (allowPrototypeMismatch or identical prototypes) and their own key
\* sets are equal and the values under every own key are engine-equal.
C10_FallbackComparator ==
    (Done /\ Fresh /\ ReachesFallback)
        => (result = "true"
              <=> /\ opts.allowPrototypeMismatch
                        \/ getPrototypeOf(call.a) = getPrototypeOf(call.b)
                  /\ KeySet(call.a) = KeySet(call.b)
                  /\ \A k \in KeySet(call.a) :
                        Verdict(Get(call.a, k), Get(call.b, k)))

C10_Witness ==
    /\ Done /\ Fresh /\ ReachesFallback /\ result = "false"
    /\ getPrototypeOf(call.a) = getPrototypeOf(call.b)
    /\ Len(OwnKeys(call.a)) = Len(OwnKeys(call.b))
    /\ \E k \in KeySet(call.a) : Get(call.a, k) = Undef /\ ~HasOwn(call.b, k)

(***************************************************************************)
(* Structural equivalence of possibly cyclic graphs.                       *)
(***************************************************************************)
\* two values are related under R: equal leaves, or a pair of objects in R
Related(v, w, R) ==
    LET s == Shortcut(v, w, DefaultOptions) IN
    s = "true" \/ (s = "descend" /\ <<v.id, w.id>> \in R)

Pairings(n) == {f \in [1..n -> 1..n] : \A i, j \in 1..n : i # j => f[i] # f[j]}

\* the objects x and y have the same category and prototype and their
\* contents correspond under R: slot by slot, key by key, and for Sets and
\* Maps through some one-to-one pairing of their elements or entries
Matches(x, y, R) ==
    LET a == Ref(x)
        b == Ref(y)
        d == Dispatch(a, b, DefaultOptions)
        o == heap[x]
        q == heap[y]
    IN  CASE d = "compareArray" ->
               /\ Len(o.items) = Len(q.items)
               /\ \A i \in 1..Len(o.items) :
                      Related(Read(o.items[i]), Read(q.items[i]), R)
          [] d = "compareObject" ->
               /\ Len(OwnKeys(a)) = Len(OwnKeys(b))
               /\ \A i \in 1..Len(OwnKeys(a)) :
                      /\ HasOwn(b, OwnKeys(a)[i])
                      /\ Related(Get(a, OwnKeys(a)[i]), Get(b, OwnKeys(a)[i]), R)
          [] d = "compareSet" ->
               /\ Len(o.items) = Len(q.items)
               /\ \E f \in Pairings(Len(o.items)) :
                      \A i \in 1..Len(o.items) : Related(o.items[i], q.items[f[i]], R)
          [] d = "compareMap" ->
               /\ Len(o.entries) = Len(q.entries)
               /\ \E f \in Pairings(Len(o.entries)) :
                      \A i \in 1..Len(o.entries) :
                          /\ Related(o.entries[i][1], q.entries[f[i]][1], R)
                          /\ Related(o.entries[i][2], q.entries[f[i]][2], R)
          [] OTHER -> LeafResult(d, a, b) = "true"

\* the greatest relation all of whose pairs match under the relation itself
RECURSIVE Refine(_)
Refine(R) ==
    LET N == {p \in R : Matches(p[1], p[2], R)} IN
    IF N = R THEN R ELSE Refine(N)

Bisimilar(a, b) ==
    Related(a, b, IF isObject(a) /\ isObject(b)
                  THEN Refine(Reach(a) \X Reach(b)) ELSE {})

\* C11: with default options, isEqual(a, b) returns true only if a and b are
\* structurally equivalent as possibly cyclic graphs, that is related by the
\* greatest bisimulation on shape and content.
C11_SoundOnCyclicGraphs ==
    (Done /\ Fresh /\ opts = DefaultOptions /\ result = "true")
        => Bisimilar(call.a, call.b)

\* the second half of C11 on its own: a graph with a cycle against a graph
\* without one is never found equal
C11_CyclicAgainstAcyclic ==
    (/\ Done /\ Fresh /\ opts = DefaultOptions /\ BothObjects
     /\ Cyclic(call.a) # Cyclic(call.b))
        => result = "false"

(***************************************************************************)
(* The tracker's entries.  The tracker holds booleans only: a pair is      *)
(* in-progress from the optimistic write of line 183 until the invocation  *)
(* that made it stores its verdict at line 200, that is while that         *)
(* invocation's frame waits on the stack.                                  *)
(***************************************************************************)
PairOf(f) == <<f.a.id, f.b.id>>
Owners(st) ==
    {k \in 1..Len(st) : st[k].fn = "isEqualWithMemo" /\ st[k].ph = "store"}
InProgress == {PairOf(stack[k]) : k \in Owners(stack)}

\* the top frame is an invocation that recorded its pair, and this step ends it
OwnerReturns ==
    /\ pc = "running" /\ stack # <<>>
    /\ Top(stack).fn = "isEqualWithMemo" /\ Top(stack).ph = "store"
    /\ Len(stack') < Len(stack)

\* C12: an invocation that recorded (a, b) as in-progress returns r only with
\* the tracker entry for (a, b) equal to r; a pair in progress is in the
\* tracker as true; and when the top-level call returns no pair is in progress.
C12_ResolvedBeforeReturn ==
    /\ [][OwnerReturns =>
            /\ ret' \in {"true", "false"}
            /\ PairOf(Top(stack)) \in DOMAIN memo'
            /\ BoolStr(memo'[PairOf(Top(stack))]) = ret']_vars
    /\ [](\A p \in InProgress : p \in DOMAIN memo /\ memo[p])
    /\ []((pc = "done" \/ (pc = "running" /\ stack = <<>>)) => InProgress = {})

\* a finished call that overwrote an optimistic entry with false and kept a true
C12_Witness ==
    /\ Done /\ result = "false"
    /\ \E p, q \in DOMAIN memo : ~memo[p] /\ memo[q]

\* the state of pair p in tracker m while the engine's stack is st
StatusOf(p, m, st) ==
    IF p \notin DOMAIN m THEN "absent"
    ELSE IF \E k \in Owners(st) : PairOf(st[k]) = p THEN "in-progress"
    ELSE IF m[p] THEN "resolved-true"
    ELSE "resolved-false"

\* this step hands a pair to a category comparator that descends
ComparatorEntered ==
    /\ Len(stack') > Len(stack)
    /\ Top(stack').fn \in Recursive

\* C13: in one tracker every ordered pair only moves absent -> in-progress ->
\* resolved: an entry never changes once resolved and never goes back to
\* absent or in-progress, also across the calls that share the tracker; a
\* pair is handed to a comparator only when absent, so at most once, and by
\* one invocation only.
C13_EntryLifecycle ==
    /\ [][/\ \A p \in DOMAIN memo \cup DOMAIN memo' :
                LET s == StatusOf(p, memo, stack)
                    t == StatusOf(p, memo', stack')
                IN  \/ s = t
                    \/ s = "absent" /\ t = "in-progress"
                    \/ s = "in-progress" /\ t \in {"resolved-true", "resolved-false"}
          /\ ComparatorEntered =>
                /\ PairOf(Top(stack')) \notin DOMAIN memo
                /\ StatusOf(PairOf(Top(stack')), memo', stack') = "in-progress"]_vars
    /\ [](\A j, k \in Owners(stack) : j # k => PairOf(stack[j]) # PairOf(stack[k]))

\* a later call on a shared tracker has finished on a pair the tracker
\* already held, with resolved entries of both values kept
C13_Witness ==
    /\ Done /\ call.shared /\ nCalls = 2
    /\ <<call.a.id, call.b.id>> \in DOMAIN memo
    /\ \E p, q \in DOMAIN memo : ~memo[p] /\ memo[q]

(***************************************************************************)
(* The matching compareMap has made when it returns true.                  *)
(***************************************************************************)
\* compareMap has just had its last entry of a accepted: its next step
\* leaves the loop and returns true
MapReturnsTrue ==
    /\ pc = "running" /\ stack # <<>>
    /\ Top(stack).fn = "compareMap"
    /\ Top(stack).ph \in {"pvalue", "value"}
    /\ ret = "true"
    /\ Top(stack).i = Len(heap[Top(stack).a.id].entries)

\* the entries of b found by direct lookup of a primitive key of a
LookedUp ==
    LET A == heap[Top(stack).a.id].entries
        B == heap[Top(stack).b.id].entries
    IN  {k \in 1..Len(B) :
            \E i \in 1..Len(A) : isPrimitive(A[i][1]) /\ B[k][1] = A[i][1]}

\* the entries of b consumed by the greedy search (the set used)
Taken ==
    Top(stack).used \cup (IF Top(stack).ph = "value" THEN {Top(stack).j} ELSE {})

\* C14: whenever compareMap returns true, no entry of b is the match of two
\* entries of a, and every entry of b is matched: the entries found by lookup
\* and the entries taken by the greedy search are disjoint and cover b.
C14_DistinctMatches ==
    MapReturnsTrue =>
        /\ LookedUp \cap Taken = {}
        /\ LookedUp \cup Taken = 1..Len(heap[Top(stack).b.id].entries)

\* the same with boxed primitives left as objects
C14_DistinctMatchesUnnormalized ==
    (MapReturnsTrue /\ ~opts.normalizeBoxedPrimitives) =>
        /\ LookedUp \cap Taken = {}
        /\ LookedUp \cup Taken = 1..Len(heap[Top(stack).b.id].entries)


====
